---- MODULE Spec2Model ----
(***************************************************************************)
(* ipynb-test: the cell model and output matcher (src/ipynb_test/cell.py)  *)
(* and the test orchestrator (src/ipynb_test/tester.py).                   *)
(*                                                                         *)
(* Python values are represented as follows.                               *)
(*   str            a sequence of one-character strings                    *)
(*   str | list[str] (a "text" value)                                      *)
(*                  [isList |-> FALSE, frags |-> <<s>>]      for a str s   *)
(*                  [isList |-> TRUE,  frags |-> <<s1,...>>] for a list    *)
(*                  so that isinstance(x, list) is x.isList and Python's   *)
(*                  == on two such values is TLA+ equality (a str never    *)
(*                  equals a list, two lists are equal elementwise)        *)
(*   dict           a function whose DOMAIN is the set of keys             *)
(*   a call         [exc |-> "none", ret |-> v, out |-> lines] when it     *)
(*                  returns v, [exc |-> <exception name>, ret |-> FALSE,   *)
(*                  out |-> lines] when it raises; out is what it printed  *)
(***************************************************************************)
EXTENDS Integers, Sequences, FiniteSets, TLC

VARIABLES
    \* ---- CodeCell.test / CodeCell.test_match (cell.py) ----
    original_outputs,   \* CodeCell.original_outputs
    exec_outputs,       \* the records the executor returned
    errored,            \* the flag the executor returned
    cell_verbose,       \* argument verbose of CodeCell.test
    cell_match_output,  \* argument match_output of CodeCell.test
    result,             \* outcome of the call under test
    printed,            \* what the call wrote with print()
    cpc,                \* position of the call under test
    \* ---- Tester (tester.py) ----
    notebooks,          \* Tester.notebooks
    num_threads,        \* Tester.num_threads
    verbose,            \* Tester.verbose
    match_output,       \* Tester.match_output
    pc,                 \* position of run_tester
    nb,                 \* index in self.notebooks of the for loop of Tester.test
    cellIdx,            \* index of the cell Notebook.test is at
    passed,             \* Notebook.test: every cell so far returned True
    open,               \* executor sessions acquired and not yet released
    sessions,           \* number of sessions client_factory has created
    owner,              \* history: session -> index of the notebook it was created for
    usedBy,             \* history: session -> set of notebooks whose cells ran on it
    tested,             \* history: notebook index -> times notebook.test was called
    returned,           \* history: notebook index -> what notebook.test returned
    exitStatus          \* exit status of the process

cellVars == <<original_outputs, exec_outputs, errored, cell_verbose,
              cell_match_output, result, printed, cpc>>
testerVars == <<notebooks, num_threads, verbose, match_output, pc, nb, cellIdx,
                passed, open, sessions, owner, usedBy, tested, returned, exitStatus>>
vars == <<cellVars, testerVars>>

(***************************************************************************)
(* Bounds                                                                  *)
(***************************************************************************)
\* longest string drawn as a text / traceback value
MaxStrLen == 2
\* most output records in one drawn sequence of outputs
MaxOutputs == 2
\* most notebooks given on the command line
MaxNotebooks == 2
\* largest -j / --num-threads value given on the command line
MaxThreads == 2

Alphabet == {"a", "b"}

(***************************************************************************)
(* Python values                                                           *)
(***************************************************************************)
Str(s) == [isList |-> FALSE, frags |-> <<s>>]
List(l) == [isList |-> TRUE, frags |-> l]
None == [none |-> TRUE]
EmptyDict == <<>>

\* the outcome of a call: the value returned or the exception raised, and
\* the lines it printed
Outcome(exc, ret, out) == [exc |-> exc, ret |-> ret, out |-> out]
Returns(v) == Outcome("none", v, <<>>)
Raises(e) == Outcome(e, FALSE, <<>>)

\* sep.join(l) for a list l of str
RECURSIVE join(_, _)
join(sep, l) ==
    IF l = <<>> THEN <<>>
    ELSE IF Len(l) = 1 THEN l[1]
    ELSE l[1] \o sep \o join(sep, Tail(l))

\* d.get(key)
get(d, key) == IF key \in DOMAIN d THEN d[key] ELSE None

(***************************************************************************)
(* CodeCell: the output matcher                                            *)
(***************************************************************************)
\* a list is joined with the separator report_error uses
normalize_newline(text) ==
    IF text.isList THEN join(<<"\n">>, text.frags) ELSE text.frags[1]

\* the conditional expressions of _compare_multiline_text: "".join(text) for a
\* list, the text itself otherwise
normalize(text) == IF text.isList THEN join(<<>>, text.frags) ELSE text.frags[1]

_compare_multiline_text(exec_text, original_text) ==
    normalize(exec_text) = normalize(original_text)

_test_match_stream(exec_output, original_output) ==
    IF exec_output.name # original_output.name THEN FALSE
    ELSE _compare_multiline_text(exec_output.text, original_output.text)

\* the traceback is compared as multi-line text
_test_match_error_joined(exec_output, original_output) ==
    /\ exec_output.ename = original_output.ename
    /\ exec_output.evalue = original_output.evalue
    /\ _compare_multiline_text(exec_output.traceback, original_output.traceback)

_test_match_error(exec_output, original_output) ==
    /\ exec_output.ename = original_output.ename
    /\ exec_output.evalue = original_output.evalue
    /\ exec_output.traceback = original_output.traceback

\* the image/png case compares the payload alone
data_key_matches_payload_only(key, exec_data, exec_metadata, original_data, original_metadata) ==
    CASE key = "text/plain" ->
            _compare_multiline_text(exec_data[key], original_data[key])
      [] key \in {"application/json", "image/png"} ->
            ~(exec_data[key] # original_data[key])
      [] OTHER -> TRUE

\* one iteration of the loop over exec_data.keys(): TRUE when it does not return False
data_key_matches(key, exec_data, exec_metadata, original_data, original_metadata) ==
    CASE key = "text/plain" ->
            _compare_multiline_text(exec_data[key], original_data[key])
      [] key = "application/json" ->
            ~(exec_data[key] # original_data[key])
      [] key = "image/png" ->
            /\ ~(exec_data[key] # original_data[key])
            /\ ~(get(exec_metadata, key) # get(original_metadata, key))
      [] OTHER -> TRUE

_test_match_execute_result(exec_output, original_output) ==
    LET exec_data == exec_output.data
        exec_metadata == exec_output.metadata
        original_data == original_output.data
        original_metadata == original_output.metadata
    IN  IF DOMAIN exec_data # DOMAIN original_data THEN FALSE
        ELSE \A key \in DOMAIN exec_data :
                data_key_matches(key, exec_data, exec_metadata,
                                 original_data, original_metadata)

\* a kind the match statement does not name is compared by equality
pair_matches_default_equal(exec_output, original_output) ==
    IF exec_output.output_type # original_output.output_type THEN FALSE
    ELSE CASE exec_output.output_type = "stream" ->
                _test_match_stream(exec_output, original_output)
           [] exec_output.output_type = "error" ->
                _test_match_error(exec_output, original_output)
           [] exec_output.output_type \in {"display_data", "execute_result"} ->
                _test_match_execute_result(exec_output, original_output)
           [] OTHER -> exec_output = original_output

\* one iteration of the loop of test_match: TRUE when it does not return False
pair_matches(exec_output, original_output) ==
    IF exec_output.output_type # original_output.output_type THEN FALSE
    ELSE CASE exec_output.output_type = "stream" ->
                _test_match_stream(exec_output, original_output)
           [] exec_output.output_type = "error" ->
                _test_match_error(exec_output, original_output)
           [] exec_output.output_type \in {"display_data", "execute_result"} ->
                _test_match_execute_result(exec_output, original_output)
           [] OTHER -> TRUE

test_match(execs, originals) ==
    IF Len(execs) # Len(originals) THEN FALSE
    ELSE \A i \in 1..Len(execs) : pair_matches(execs[i], originals[i])

(***************************************************************************)
(* CodeCell.test                                                           *)
(***************************************************************************)
report_error(error_msg) ==
    IF "traceback" \notin DOMAIN error_msg THEN Raises("KeyError")
    ELSE LET traceback == error_msg.traceback
             text == IF traceback.isList THEN join(<<"\n">>, traceback.frags)
                     ELSE traceback.frags[1]
         IN  Outcome("none", None, <<text>>)

\* CodeCell.test with executor(self.source) = (execs, err)
test(originals, execs, err, verb, match) ==
    IF err THEN
        IF verb THEN
            IF execs = <<>> THEN Raises("IndexError")
            ELSE LET reported == report_error(execs[Len(execs)])
                 IN  IF reported.exc # "none" THEN reported
                     ELSE Outcome("none", FALSE, reported.out)
        ELSE Returns(FALSE)
    ELSE IF match THEN Returns(test_match(execs, originals))
    ELSE Returns(TRUE)

\* MarkdownCell.test
markdown_test == Returns(TRUE)

(***************************************************************************)
(* Inputs: strings, text values, output records                            *)
(***************************************************************************)
RECURSIVE StringsOfLen(_)
StringsOfLen(n) ==
    IF n = 0 THEN {<<>>}
    ELSE {Append(s, c) : s \in StringsOfLen(n - 1), c \in Alphabet}

AllStrings == UNION {StringsOfLen(n) : n \in 0..MaxStrLen}

Min(S) == CHOOSE x \in S : \A y \in S : x <= y

\* s cut into fragments after the positions in C
RECURSIVE CutFrom(_, _, _)
CutFrom(s, C, start) ==
    IF start >= Len(s) THEN <<>>
    ELSE LET next == Min({c \in C : c > start} \cup {Len(s)})
         IN  <<SubSeq(s, start + 1, next)>> \o CutFrom(s, C, next)

Cut(s, C) == IF s = <<>> THEN << <<>> >> ELSE CutFrom(s, C, 0)

\* the lists of fragments: the empty list, and every string cut in every way
FragLists ==
    {<<>>} \cup {Cut(s, C) : s \in AllStrings, C \in SUBSET (1..(MaxStrLen - 1))}

\* the values of a text field: a str, or a list of str
TextValues == {Str(s) : s \in AllStrings} \cup {List(l) : l \in FragLists}

StreamRecord(name, text) ==
    [output_type |-> "stream", name |-> name, text |-> text]
ErrorRecord(ename, evalue, traceback) ==
    [output_type |-> "error", ename |-> ename, evalue |-> evalue,
     traceback |-> traceback]
DataRecord(type, data, metadata) ==
    [output_type |-> type, data |-> data, metadata |-> metadata]

StreamRecords ==
    {StreamRecord(n, t) : n \in {"stdout", "stderr"}, t \in TextValues}
ErrorRecords ==
    {ErrorRecord(en, ev, tb) : en \in {"NameError", "ValueError"},
                               ev \in {"x", "y"}, tb \in TextValues}
\* execute_result records that carry one text/plain value
PlainRecords ==
    {DataRecord("execute_result", [k \in {"text/plain"} |-> t], EmptyDict) :
        t \in TextValues}

\* the values drawn under the keys of data other than text/plain
Payloads == {Str(<<"a">>), Str(<<"b">>)}
\* text/html stands for the content types _test_match_execute_result does not name
DataKeys == {"application/json", "image/png", "text/html"}
DataDicts ==
    UNION {[K \cup P -> Payloads] :
             K \in SUBSET DataKeys, P \in SUBSET {"text/plain"}}
Metadatas ==
    {EmptyDict} \cup {[k \in {"image/png"} |-> [width |-> w]] : w \in {10, 20}}
DataRecords ==
    {DataRecord("display_data", d, m) : d \in DataDicts, m \in Metadatas}

\* one record of each kind, and records of kinds test_match does not name
MixedRecords ==
    { StreamRecord("stdout", Str(<<"a">>)),
      ErrorRecord("NameError", "x", List(<< <<"a">>, <<"b">> >>)),
      DataRecord("execute_result", [k \in {"text/plain"} |-> Str(<<"a">>)], EmptyDict),
      [output_type |-> "update_display_data", data |-> Str(<<"a">>)],
      [output_type |-> "update_display_data", data |-> Str(<<"b">>)],
      [output_type |-> "pyout", text |-> List(<< <<"a">> >>)] }

SeqsUpTo(S, n) == UNION {[1..k -> S] : k \in 0..n}
Singletons(S) == {<<r>> : r \in S}

\* the families of output sequences; an (exec, original) pair is drawn from one family
Families ==
    { Singletons(StreamRecords), Singletons(ErrorRecords), Singletons(PlainRecords),
      Singletons(DataRecords), SeqsUpTo(MixedRecords, MaxOutputs) }

(***************************************************************************)
(* Tester is not running in the specifications of the cell and the matcher *)
(***************************************************************************)
TesterIdle ==
    /\ notebooks = <<>>
    /\ num_threads = 1
    /\ verbose = FALSE
    /\ match_output = FALSE
    /\ pc = "idle"
    /\ nb = 0
    /\ cellIdx = 0
    /\ passed = TRUE
    /\ open = {}
    /\ sessions = 0
    /\ owner = <<>>
    /\ usedBy = <<>>
    /\ tested = <<>>
    /\ returned = <<>>
    /\ exitStatus = None

(***************************************************************************)
(* MatchSpec: CodeCell.test_match applied to drawn sequences of outputs    *)
(***************************************************************************)
MatchInit ==
    /\ \E F \in Families :
          /\ exec_outputs \in F
          /\ original_outputs \in F
    /\ errored = FALSE
    /\ cell_verbose = FALSE
    /\ cell_match_output = TRUE
    /\ result = None
    /\ printed = <<>>
    /\ cpc = "test_match"
    /\ TesterIdle

TestMatch ==
    /\ cpc = "test_match"
    /\ result' = Returns(test_match(exec_outputs, original_outputs))
    /\ cpc' = "done"
    /\ UNCHANGED <<original_outputs, exec_outputs, errored, cell_verbose,
                   cell_match_output, printed>>
    /\ UNCHANGED testerVars

MatchNext == TestMatch

MatchSpec == MatchInit /\ [][MatchNext]_vars

(***************************************************************************)
(* CellSpec: CodeCell.test applied to a drawn cell, executor and flags     *)
(***************************************************************************)
CellIdle ==
    /\ original_outputs = <<>>
    /\ exec_outputs = <<>>
    /\ errored = FALSE
    /\ cell_verbose = FALSE
    /\ cell_match_output = FALSE
    /\ result = None
    /\ printed = <<>>
    /\ cpc = "idle"

CellInit ==
    /\ original_outputs \in SeqsUpTo(MixedRecords, MaxOutputs)
    /\ cell_verbose \in BOOLEAN
    /\ cell_match_output \in BOOLEAN
    /\ exec_outputs = <<>>
    /\ errored = FALSE
    /\ result = None
    /\ printed = <<>>
    /\ cpc = "test"
    /\ TesterIdle

\* CodeCell.test, the executor returning (execs, err)
CodeCellTest ==
    /\ cpc = "test"
    /\ \E execs \in SeqsUpTo(MixedRecords, MaxOutputs), err \in BOOLEAN :
          LET outcome == test(original_outputs, execs, err, cell_verbose,
                              cell_match_output)
          IN  /\ exec_outputs' = execs
              /\ errored' = err
              /\ result' = outcome
              /\ printed' = outcome.out
    /\ cpc' = "done"
    /\ UNCHANGED <<original_outputs, cell_verbose, cell_match_output>>
    /\ UNCHANGED testerVars

CellNext == CodeCellTest

CellSpec == CellInit /\ [][CellNext]_vars

(***************************************************************************)
(* Spec: run_tester                                                        *)
(*                                                                         *)
(* Tester.seed is handed to notebook.test unchanged and read nowhere in    *)
(* cell.py or tester.py; it is left out of the state.  Tester.cli is       *)
(* modelled for command lines whose notebooks load.  Tester.test never     *)
(* reads num_threads and starts no thread: the notebooks are tested one    *)
(* after the other by the caller of run_tester.                            *)
(***************************************************************************)
MarkdownCell == [cell_type |-> "markdown"]
CodeCell(outputs) == [cell_type |-> "code", original_outputs |-> outputs]

\* the notebooks that can be named on the command line, each a list of cells
NotebookUniverse ==
    { <<MarkdownCell>>,
      <<CodeCell(<<>>)>>,
      <<MarkdownCell, CodeCell(<<StreamRecord("stdout", Str(<<"a">>))>>)>>,
      <<CodeCell(<<>>), CodeCell(<<StreamRecord("stdout", Str(<<"a">>))>>)>> }

\* what an executor session can return for a cell's source
Replies ==
    { [outputs |-> <<>>, errored |-> FALSE],
      [outputs |-> <<StreamRecord("stdout", List(<< <<"a">> >>))>>, errored |-> FALSE],
      [outputs |-> <<ErrorRecord("NameError", "x", List(<< <<"a">>, <<"b">> >>))>>,
       errored |-> TRUE],
      [outputs |-> <<StreamRecord("stderr", Str(<<"a">>))>>, errored |-> TRUE],
      [outputs |-> <<>>, errored |-> TRUE] }

\* Kernel.client_factory(): a session that no earlier call returned
client_factory(created) == created + 1

\* leaving the with block of test_notebook releases the session only on a normal exit
WithExitNoFinally(sessionsOpen, session, raised) ==
    IF raised THEN sessionsOpen ELSE sessionsOpen \ {session}

\* leaving the with block of test_notebook, normally or by an exception
WithExit(sessionsOpen, session, raised) == sessionsOpen \ {session}

\* Tester.__init__
Init ==
    /\ notebooks = <<>>
    /\ num_threads = 1
    /\ verbose = FALSE
    /\ match_output = FALSE
    /\ pc = "cli"
    /\ nb = 0
    /\ cellIdx = 0
    /\ passed = TRUE
    /\ open = {}
    /\ sessions = 0
    /\ owner = <<>>
    /\ usedBy = <<>>
    /\ tested = <<>>
    /\ returned = <<>>
    /\ exitStatus = None
    /\ CellIdle

\* Tester.cli
Cli ==
    /\ pc = "cli"
    /\ \E nbs \in SeqsUpTo(NotebookUniverse, MaxNotebooks) :
          /\ notebooks' = nbs
          /\ tested' = [i \in 1..Len(nbs) |-> 0]
          /\ returned' = [i \in 1..Len(nbs) |-> None]
    /\ num_threads' \in 1..MaxThreads
    /\ verbose' \in BOOLEAN
    /\ match_output' \in BOOLEAN
    /\ pc' = "test"
    /\ UNCHANGED <<nb, cellIdx, passed, open, sessions, owner, usedBy, exitStatus>>
    /\ UNCHANGED cellVars

\* Tester.test takes the next notebook; test_notebook enters the with block and
\* calls notebook.test
TestNotebook ==
    /\ pc = "test"
    /\ nb < Len(notebooks)
    /\ nb' = nb + 1
    /\ sessions' = client_factory(sessions)
    /\ open' = open \cup {sessions'}
    /\ owner' = Append(owner, nb')
    /\ usedBy' = Append(usedBy, {})
    /\ tested' = [tested EXCEPT ![nb'] = @ + 1]
    /\ cellIdx' = 0
    /\ passed' = TRUE
    /\ pc' = "notebook"
    /\ UNCHANGED <<notebooks, num_threads, verbose, match_output, returned, exitStatus>>
    /\ UNCHANGED cellVars

\* the outcomes cell.test(executor, verbose, match_output) can have
CellOutcomes(cell) ==
    IF cell.cell_type = "markdown" THEN {markdown_test}
    ELSE {test(cell.original_outputs, r.outputs, r.errored, verbose, match_output) :
            r \in Replies}

\* Notebook.test: the next cell's test returns
CellReturns ==
    /\ pc = "notebook"
    /\ cellIdx < Len(notebooks[nb])
    /\ \E outcome \in CellOutcomes(notebooks[nb][cellIdx + 1]) :
          /\ outcome.exc = "none"
          /\ passed' = (passed /\ outcome.ret)
    /\ cellIdx' = cellIdx + 1
    /\ usedBy' = [usedBy EXCEPT ![sessions] = @ \cup {nb}]
    /\ UNCHANGED <<notebooks, num_threads, verbose, match_output, pc, nb, open,
                   sessions, owner, tested, returned, exitStatus>>
    /\ UNCHANGED cellVars

\* Notebook.test: the next cell's test raises; the exception leaves notebook.test,
\* the with block, test_notebook, Tester.test and run_tester
CellRaises ==
    /\ pc = "notebook"
    /\ cellIdx < Len(notebooks[nb])
    /\ \E outcome \in CellOutcomes(notebooks[nb][cellIdx + 1]) :
          outcome.exc # "none"
    /\ usedBy' = [usedBy EXCEPT ![sessions] = @ \cup {nb}]
    /\ open' = WithExit(open, sessions, TRUE)
    /\ pc' = "aborted"
    /\ exitStatus' = 1
    /\ UNCHANGED <<notebooks, num_threads, verbose, match_output, nb, cellIdx,
                   passed, sessions, owner, tested, returned>>
    /\ UNCHANGED cellVars

\* Notebook.test returns; test_notebook leaves the with block and returns None
NotebookReturns ==
    /\ pc = "notebook"
    /\ cellIdx = Len(notebooks[nb])
    /\ returned' = [returned EXCEPT ![nb] = Returns(passed)]
    /\ open' = WithExit(open, sessions, FALSE)
    /\ pc' = "test"
    /\ UNCHANGED <<notebooks, num_threads, verbose, match_output, nb, cellIdx,
                   passed, sessions, owner, usedBy, tested, exitStatus>>
    /\ UNCHANGED cellVars

\* the loop of Tester.test ends; run_tester returns
TestDone ==
    /\ pc = "test"
    /\ nb = Len(notebooks)
    /\ pc' = "done"
    /\ exitStatus' = 0
    /\ UNCHANGED <<notebooks, num_threads, verbose, match_output, nb, cellIdx,
                   passed, open, sessions, owner, usedBy, tested, returned>>
    /\ UNCHANGED cellVars

Next ==
    \/ Cli
    \/ TestNotebook
    \/ CellReturns
    \/ CellRaises
    \/ NotebookReturns
    \/ TestDone

Spec == Init /\ [][Next]_vars

(***************************************************************************)
(* Properties of the matcher (MatchSpec)                                   *)
(***************************************************************************)
RECURSIVE TotalLen(_)
TotalLen(l) == IF l = <<>> THEN 0 ELSE Len(Head(l)) + TotalLen(Tail(l))

\* the fragments of l, in order and with nothing between them, are exactly s:
\* character j of fragment i is the character of s at the same place
IsSplitOf(l, s) ==
    /\ TotalLen(l) = Len(s)
    /\ \A i \in 1..Len(l) : \A j \in 1..Len(l[i]) :
          l[i][j] = s[TotalLen(SubSeq(l, 1, i - 1)) + j]

\* two text values hold the same text
SameText(t1, t2) ==
    \E s \in AllStrings : IsSplitOf(t1.frags, s) /\ IsSplitOf(t2.frags, s)

IsData(r) == r.output_type \in {"display_data", "execute_result"}

\* test_match was applied to one record against one record
OnePair == cpc = "done" /\ Len(exec_outputs) = 1 /\ Len(original_outputs) = 1

\* the (exec, original) text fields on whose comparison the match of the pair
\* rests alone: the text of two streams of one name, the text/plain values of
\* two records of one data kind whose only key is text/plain
TextsCompared ==
    IF ~OnePair THEN {}
    ELSE LET e == exec_outputs[1]
             o == original_outputs[1]
         IN  IF e.output_type = "stream" /\ o.output_type = "stream"
                THEN IF e.name = o.name THEN {<<e.text, o.text>>} ELSE {}
             ELSE IF /\ IsData(e)
                     /\ e.output_type = o.output_type
                     /\ DOMAIN e.data = {"text/plain"}
                     /\ DOMAIN o.data = {"text/plain"}
                THEN {<<e.data["text/plain"], o.data["text/plain"]>>}
             ELSE {}

\* C6: a text field of a stream record or a text/plain value compares equal to
\* the other side's exactly when the two hold the same text, whether each
\* side is one string or any split of it into fragments.
C6_TextNormalized ==
    \A p \in TextsCompared : result.ret = SameText(p[1], p[2])

\* C6 witness: the string "ab" on the exec side matched the fragments "a", "b"
C6_Witness ==
    \E p \in TextsCompared :
        /\ p[1] = Str(<<"a", "b">>)
        /\ p[2] = List(<< <<"a">>, <<"b">> >>)
        /\ result.ret = TRUE

ErrorPair ==
    /\ OnePair
    /\ exec_outputs[1].output_type = "error"
    /\ original_outputs[1].output_type = "error"

\* C7: two error records match if and only if ename, evalue are equal and the
\* tracebacks hold the same text, a fragment sequence being joined first.
C7_TracebackNormalized ==
    ErrorPair =>
        LET e == exec_outputs[1]
            o == original_outputs[1]
        IN  result.ret = (/\ e.ename = o.ename
                          /\ e.evalue = o.evalue
                          /\ SameText(e.traceback, o.traceback))

\* C7 as the code has it: two error records match if and only if ename,
\* evalue and traceback are each equal as they are; a traceback that is a list
\* of fragments equals only the same list of fragments, and never a string.
C7_TracebackAsIs ==
    ErrorPair =>
        LET e == exec_outputs[1]
            o == original_outputs[1]
        IN  result.ret = (/\ e.ename = o.ename
                          /\ e.evalue = o.evalue
                          /\ e.traceback.isList = o.traceback.isList
                          /\ e.traceback.frags = o.traceback.frags)

\* C7 witness: equal ename and evalue, the fragments "a", "b" against the
\* string "ab": no match
C7_Witness ==
    /\ ErrorPair
    /\ exec_outputs[1].ename = original_outputs[1].ename
    /\ exec_outputs[1].evalue = original_outputs[1].evalue
    /\ exec_outputs[1].traceback = List(<< <<"a">>, <<"b">> >>)
    /\ original_outputs[1].traceback = Str(<<"a", "b">>)
    /\ result.ret = FALSE

DataPair ==
    /\ OnePair
    /\ IsData(exec_outputs[1])
    /\ exec_outputs[1].output_type = original_outputs[1].output_type

Recognized == {"text/plain", "application/json", "image/png"}

\* C8: two display_data / execute_result records match only if the key sets of
\* their data are identical and every value under an unrecognized key is equal.
C8_UnrecognizedKeysCompared ==
    (DataPair /\ result.ret = TRUE) =>
        LET e == exec_outputs[1]
            o == original_outputs[1]
        IN  /\ DOMAIN e.data = DOMAIN o.data
            /\ \A key \in DOMAIN e.data \ Recognized : e.data[key] = o.data[key]

\* the image/png entry of a record's metadata, as the set of its values
PngMetadata(r) ==
    IF "image/png" \in DOMAIN r.metadata THEN {r.metadata["image/png"]} ELSE {}

\* C9: two records that both carry image/png do not match when the payloads
\* differ, nor when their metadata for image/png differ (in value or presence).
C9_PngPayloadAndMetadata ==
    (/\ DataPair
     /\ "image/png" \in DOMAIN exec_outputs[1].data
     /\ "image/png" \in DOMAIN original_outputs[1].data
     /\ \/ exec_outputs[1].data["image/png"] # original_outputs[1].data["image/png"]
        \/ PngMetadata(exec_outputs[1]) # PngMetadata(original_outputs[1]))
    => result.ret = FALSE

\* C9 witness: identical data with image/png, width 10 against width 20, no match
C9_Witness ==
    /\ DataPair
    /\ "image/png" \in DOMAIN exec_outputs[1].data
    /\ exec_outputs[1].data = original_outputs[1].data
    /\ PngMetadata(exec_outputs[1]) = {[width |-> 10]}
    /\ PngMetadata(original_outputs[1]) = {[width |-> 20]}
    /\ result.ret = FALSE

NamedKinds == {"stream", "error", "display_data", "execute_result"}

\* every positional pair has one output_type, and it is not a named kind
OnlyUnnamedPairs ==
    /\ cpc = "done"
    /\ Len(exec_outputs) = Len(original_outputs)
    /\ \A i \in 1..Len(exec_outputs) :
          /\ exec_outputs[i].output_type = original_outputs[i].output_type
          /\ exec_outputs[i].output_type \notin NamedKinds

\* C10: two sequences of equal length made only of pairs of one output_type
\* that is not stream, error, display_data or execute_result match, whatever
\* the other fields of the records are.
C10_UnnamedKindsAccepted == OnlyUnnamedPairs => result.ret = TRUE

\* C10 witness: two such pairs, the records of the first differing in a field
C10_Witness ==
    /\ OnlyUnnamedPairs
    /\ Len(exec_outputs) = 2
    /\ exec_outputs[1] # original_outputs[1]
    /\ result.ret = TRUE

(***************************************************************************)
(* Properties of CodeCell.test (CellSpec)                                  *)
(***************************************************************************)
\* C1: CodeCell.test returns False when the executor reports an error, else
\* True when match_output is off, else the result of test_match.
C1_TestResult ==
    cpc = "done" =>
        /\ result.exc = "none"
        /\ result.ret = IF errored THEN FALSE
                        ELSE IF ~cell_match_output THEN TRUE
                        ELSE test_match(exec_outputs, original_outputs)

\* C2: CodeCell.test never raises: it completes with a boolean for every
\* sequence of output records, either errored flag and every flag combination.
C2_TestNeverRaises ==
    cpc = "done" => (result.exc = "none" /\ result.ret \in BOOLEAN)

(***************************************************************************)
(* Properties of the orchestrator (Spec)                                   *)
(***************************************************************************)
RunEnded == pc \in {"done", "aborted"}

\* C3: no notebook is tested twice, and when the run has ended every
\* notebook has been tested exactly once.
C3_EveryNotebookTestedOnce ==
    /\ \A i \in DOMAIN tested : tested[i] <= 1
    /\ RunEnded => \A i \in DOMAIN tested : tested[i] = 1

C5_ResultAggregated ==
    RunEnded =>
        (exitStatus = 0 <=> \A i \in DOMAIN returned : returned[i] = Returns(TRUE))

====
